---- MODULE Spec2Model ----
(***************************************************************************)
(* A model of loggingutil.py, the Cloud Functions logging helper.          *)
(*                                                                         *)
(* Importing the module runs its top-level statements in order (the load   *)
(* steps below); afterwards the web framework calls before_req once per    *)
(* request and any flow may build a log record through the installed       *)
(* record factory.                                                         *)
(*                                                                         *)
(* Python values: a str is a sequence of one-character strings, None is    *)
(* the value None below, a dict (and the attribute set of an object) is a  *)
(* function whose DOMAIN is the set of keys present.                       *)
(***************************************************************************)
EXTENDS Integers, Sequences, FiniteSets, TLC

VARIABLES
    pc,                       \* the next top-level statement of the module
    handlers,                 \* logging.getLogger().handlers
    environ,                  \* os.environ
    LOGGER_FUNCTION_CONTEXT,  \* the module-level dict of line 48
    LOGGER_REQUEST_CONTEXT,   \* the threading.local of line 49: one attribute set per slot
    log_record_factory,       \* what logging.getLogRecordFactory() returns
    before_request_funcs,     \* the callbacks registered through app.before_request
    active,                   \* the logical tasks that are handling a request
    record,                   \* the record under construction/emission, or NoRecord
    preinstalled,             \* history: the root handlers before the module was imported
    installed,                \* history: the handlers setup_logging has added
    writer,                   \* history: per slot and attribute, the task whose hook wrote it
    hookRan,                  \* history: the tasks on which before_req has been invoked
    lastReq,                  \* history: the most recent invocation of before_req
    levels,                   \* the threshold of each logger on which setLevel was called
    requested,                \* history: per name, the threshold the last LogFactory call asked for
    runs,                     \* history: how often the top-level statements have been started
    atNormalizer              \* history: the root handlers when lines 36-40 last began

vars == << pc, handlers, environ, LOGGER_FUNCTION_CONTEXT, LOGGER_REQUEST_CONTEXT,
           log_record_factory, before_request_funcs, active, record,
           preinstalled, installed, writer, hookRan, lastReq,
           levels, requested, runs, atNormalizer >>

----------------------------------------------------------------------------
(* Bounds of the model *)

\* the longest root handler list the platform pre-installs
MaxPre == 4
\* the most handlers the backend client adds in one setup_logging call
MaxBackend == 2
\* the longest Traceparent header of the character-level parsing runs
MaxHeaderLen == 4
\* how many times the top-level statements of the module run in one process
MaxRuns == 2

----------------------------------------------------------------------------
(* Python values *)

None == <<"None">>

\* the truth test of `if x:` for a value that is a str or None
Truthy(x) == x # None /\ x # <<>>

\* a or b
Or(a, b) == IF Truthy(a) THEN a ELSE b

EmptyDict == [k \in {} |-> None]

\* d.get(key, default) and getattr(obj, key, default)
Get(d, key, default) == IF key \in DOMAIN d THEN d[key] ELSE default

\* d[key] = value and setattr(obj, key, value)
Put(d, key, value) == [k \in DOMAIN d \cup {key} |-> IF k = key THEN value ELSE d[k]]

\* s.split(sep): the pieces of s between the occurrences of the character sep
RECURSIVE SplitFrom(_, _, _, _, _)
SplitFrom(s, sep, i, cur, segs) ==
    IF i > Len(s) THEN Append(segs, cur)
    ELSE IF s[i] = sep THEN SplitFrom(s, sep, i + 1, <<>>, Append(segs, cur))
    ELSE SplitFrom(s, sep, i + 1, Append(cur, s[i]), segs)

split(s, sep) == SplitFrom(s, sep, 1, <<>>, <<>>)

----------------------------------------------------------------------------
(* Flows: OS threads, and the logical tasks (coroutines, greenlets) that  *)
(* run on them.  Tasks a and b share thread T1; task c has T2 to itself.  *)

Threads == {"T1", "T2"}
Tasks == {"a", "b", "c"}
ThreadOf(k) == IF k = "c" THEN "T2" ELSE "T1"

\* line 49 with a fault: a plain object, one attribute set for all threads
SlotGlobal(k) == "T1"

\* line 49: threading.local keeps one attribute set per OS thread
Slot(k) == ThreadOf(k)

----------------------------------------------------------------------------
(* Root handlers.  A handler is its class: kind says who installed it,    *)
(* stream whether the class derives from logging.StreamHandler.  Console  *)
(* is the generic logging.StreamHandler; another pre-installed handler    *)
(* may derive from it (a FileHandler) or not (a NullHandler); the class   *)
(* of the backend client's handler is the client library's choice.        *)

Console == [kind |-> "console", stream |-> TRUE]
OtherStream == [kind |-> "other", stream |-> TRUE]
Other == [kind |-> "other", stream |-> FALSE]
Backend(s) == [kind |-> "backend", stream |-> s]

isinstance_StreamHandler(h) == h.stream

RECURSIVE SeqsUpTo(_, _)
SeqsUpTo(S, n) ==
    IF n = 0 THEN {<<>>}
    ELSE LET shorter == SeqsUpTo(S, n - 1)
         IN  shorter \cup {Append(q, x) : q \in {r \in shorter : Len(r) = n - 1}, x \in S}

\* del lst[i], i counted from 0
Del(lst, i) == [j \in 1..(Len(lst) - 1) |-> IF j <= i THEN lst[j] ELSE lst[j + 1]]

\* lines 36-40 with a fault: one del only
remove_streamhandlers_once(hs) ==
    IF Len(hs) > 2 /\ isinstance_StreamHandler(hs[1]) /\ isinstance_StreamHandler(hs[2])
    THEN Del(hs, 0)
    ELSE hs

\* lines 36-40 with a fault: the second del names index 1
remove_streamhandlers_skip(hs) ==
    IF Len(hs) > 2 /\ isinstance_StreamHandler(hs[1]) /\ isinstance_StreamHandler(hs[2])
    THEN Del(Del(hs, 0), 1)
    ELSE hs

\* lines 36-40 with a fault: only generic console handlers are removed
remove_streamhandlers_consoles(hs) ==
    IF Len(hs) > 2 /\ hs[1].kind = "console" /\ hs[2].kind = "console"
    THEN Del(Del(hs, 0), 0)
    ELSE hs

\* lines 36-40
remove_streamhandlers(hs) ==
    IF Len(hs) > 2 /\ isinstance_StreamHandler(hs[1]) /\ isinstance_StreamHandler(hs[2])
    THEN Del(Del(hs, 0), 0)
    ELSE hs

----------------------------------------------------------------------------
(* The record factory, lines 50-74 *)

\* _old_log_factory: the record class of the logging package, which keeps its arguments
old_log_factory(args) == [a \in DOMAIN args |-> args[a]]

\* lines 56-60
Resource(fctx) ==
    [type |-> "cloud_function",
     labels |-> [project_id |-> Get(fctx, "project_id", None),
                 region |-> Get(fctx, "function_region", None),
                 function_name |-> Get(fctx, "function_name", None)]]

\* line 60 with a fault: the resource is attached only when the project is known
attach_resource_known(rec, fctx) ==
    IF Truthy(Get(fctx, "project_id", None)) THEN Put(rec, "resource", Resource(fctx)) ELSE rec

\* line 60
attach_resource(rec, fctx) == Put(rec, "resource", Resource(fctx))

\* lines 63-68 with a fault: without the tests of lines 64 and 67
attach_trace_span_always(rec, rctx) ==
    Put(Put(rec, "trace", Get(rctx, "trace", None)), "span_id", Get(rctx, "span_id", None))

\* lines 63-68
attach_trace_span(rec, rctx) ==
    LET trace == Get(rctx, "trace", None)
        r1 == IF Truthy(trace) THEN Put(rec, "trace", trace) ELSE rec
        span_id == Get(rctx, "span_id", None)
    IN  IF Truthy(span_id) THEN Put(r1, "span_id", span_id) ELSE r1

\* line 71 with a fault: the execution id label wins over the configured labels
labels_for_execution_first(fctx, execution_id) == [execution_id |-> execution_id]

\* line 71
labels_for(fctx, execution_id) == Get(fctx, "labels", [execution_id |-> execution_id])

\* lines 69-72
attach_labels(rec, fctx, rctx) ==
    LET execution_id == Get(rctx, "execution_id", None)
    IN  IF Truthy(execution_id)
        THEN Put(rec, "labels", labels_for(fctx, execution_id))
        ELSE rec

\* lines 51-73 with a fault: the record is made anew instead of by the kept factory
new_log_factory_replacing(args, fctx, rctx) ==
    attach_labels(attach_trace_span(attach_resource(EmptyDict, fctx), rctx), fctx, rctx)

\* lines 51-73
new_log_factory(args, fctx, rctx) ==
    attach_labels(attach_trace_span(attach_resource(old_log_factory(args), fctx), rctx),
                  fctx, rctx)

----------------------------------------------------------------------------
(* The request hook, lines 78-88.  The result is the attribute set of the *)
(* calling flow's slot when the hook returns or raises, the attributes    *)
(* it has assigned, and whether it raised (IndexError of trace[1] or      *)
(* trace[2]).                                                             *)

\* lines 85-86 with a fault: the segments are taken one place early
trace_segments_early(trace) == [trace |-> 1, span_id |-> 2]

\* lines 85-86: trace[1] and trace[2], counted from 0
trace_segments(trace) == [trace |-> 2, span_id |-> 3]

\* lines 82-86
store_trace(ctx, headers) ==
    LET trace_header == Get(headers, "Traceparent", None)
    IN  IF ~Truthy(trace_header)
        THEN [ctx |-> ctx, wrote |-> {}, raised |-> FALSE]
        ELSE LET trace == split(trace_header, "-")
                 at == trace_segments(trace)
             IN  IF Len(trace) < at.trace
                 THEN [ctx |-> ctx, wrote |-> {}, raised |-> TRUE]
                 ELSE IF Len(trace) < at.span_id
                 THEN [ctx |-> Put(ctx, "trace", trace[at.trace]),
                       wrote |-> {"trace"}, raised |-> TRUE]
                 ELSE [ctx |-> Put(Put(ctx, "trace", trace[at.trace]),
                                   "span_id", trace[at.span_id]),
                       wrote |-> {"trace", "span_id"}, raised |-> FALSE]

\* lines 79-88
before_req(ctx, headers) ==
    LET t == store_trace(ctx, headers)
    IN  IF t.raised THEN t
        ELSE [ctx |-> Put(t.ctx, "execution_id", Get(headers, "Function-Execution-Id", None)),
              wrote |-> t.wrote \cup {"execution_id"},
              raised |-> FALSE]

----------------------------------------------------------------------------
(* The static context, lines 91-97 *)

\* os.environ.get(name)
environ_get(env, name) == Get(env, name, None)

\* line 92 with a fault: GCP_PROJECT is consulted before GCLOUD_PROJECT
PROJECT_ID_swapped(env) ==
    Or(environ_get(env, "GCP_PROJECT"),
       Or(environ_get(env, "GCLOUD_PROJECT"),
          Or(environ_get(env, "X_GOOGLE_GCLOUD_PROJECT"), environ_get(env, "PROJECT_ID"))))

\* line 92
PROJECT_ID(env) ==
    Or(environ_get(env, "GCLOUD_PROJECT"),
       Or(environ_get(env, "GCP_PROJECT"),
          Or(environ_get(env, "X_GOOGLE_GCLOUD_PROJECT"), environ_get(env, "PROJECT_ID"))))

\* line 93
FUNCTION_NAME(env) ==
    Or(environ_get(env, "FUNCTION_NAME"), environ_get(env, "X_GOOGLE_FUNCTION_NAME"))

\* line 94
FUNCTION_REGION(env) ==
    Or(environ_get(env, "FUNCTION_REGION"), environ_get(env, "X_GOOGLE_FUNCTION_REGION"))

----------------------------------------------------------------------------
(* Initial states: the interpreter is about to import the module *)

NoRecord == [flow |-> "none", factory |-> "none", args |-> EmptyDict, rec |-> EmptyDict]
NoReq == [flow |-> "none", headers |-> EmptyDict, raised |-> FALSE, solo |-> FALSE]

InitWith(pres, envs) ==
    /\ pc = "setup_logging"
    /\ preinstalled \in pres
    /\ handlers = preinstalled
    /\ installed = <<>>
    /\ environ \in envs
    /\ LOGGER_FUNCTION_CONTEXT = EmptyDict
    /\ LOGGER_REQUEST_CONTEXT = [t \in Threads |-> EmptyDict]
    /\ log_record_factory = "old"
    /\ before_request_funcs = {}
    /\ active = {}
    /\ record = NoRecord
    /\ writer = [t \in Threads |-> EmptyDict]
    /\ hookRan = {}
    /\ lastReq = NoReq
    /\ levels = EmptyDict
    /\ requested = EmptyDict
    /\ runs = 1
    /\ atNormalizer = <<>>

----------------------------------------------------------------------------
(* The top-level statements of the module, in order *)

\* EXCLUDED_LOGGER_DEFAULTS of line 23: the backend client's own loggers
EXCLUDED_LOGGER_DEFAULTS == {"google.cloud", "google.auth"}

\* line 28: the backend client adds its handler(s), all of its one handler class, to
\* the root logger and sets the root logger's level to its default
SetupLogging(n, s) ==
    /\ pc = "setup_logging"
    /\ \A i \in 1..Len(installed) : installed[i].stream = s
    /\ handlers' = handlers \o [i \in 1..n |-> Backend(s)]
    /\ installed' = installed \o [i \in 1..n |-> Backend(s)]
    /\ levels' = Put(levels, "root", "INFO")
    /\ pc' = "set_level"
    /\ UNCHANGED << environ, LOGGER_FUNCTION_CONTEXT, LOGGER_REQUEST_CONTEXT,
                    log_record_factory, before_request_funcs, active, record,
                    preinstalled, writer, hookRan, lastReq,
                    requested, runs, atNormalizer >>

\* lines 29-32
SetLevel ==
    /\ pc = "set_level"
    /\ levels' = [l \in DOMAIN levels \cup {"root"} \cup EXCLUDED_LOGGER_DEFAULTS |->
                     IF l = "root" THEN "INFO"
                     ELSE IF l \in EXCLUDED_LOGGER_DEFAULTS THEN "WARNING"
                     ELSE levels[l]]
    /\ pc' = "root_handlers"
    /\ UNCHANGED << handlers, environ, LOGGER_FUNCTION_CONTEXT, LOGGER_REQUEST_CONTEXT,
                    log_record_factory, before_request_funcs, active, record,
                    preinstalled, installed, writer, hookRan, lastReq,
                    requested, runs, atNormalizer >>

\* lines 36-40
RemoveStreamHandlers ==
    /\ pc = "root_handlers"
    /\ handlers' = remove_streamhandlers(handlers)
    /\ atNormalizer' = handlers
    /\ pc' = "log_factory"
    /\ UNCHANGED << environ, LOGGER_FUNCTION_CONTEXT, LOGGER_REQUEST_CONTEXT,
                    log_record_factory, before_request_funcs, active, record,
                    preinstalled, installed, writer, hookRan, lastReq,
                    levels, requested, runs >>

\* lines 47-74: the two contexts are created (empty), and the new factory, which
\* keeps the factory it found, is installed
SetLogRecordFactory ==
    /\ pc = "log_factory"
    /\ LOGGER_FUNCTION_CONTEXT' = EmptyDict
    /\ LOGGER_REQUEST_CONTEXT' = [t \in Threads |-> EmptyDict]
    /\ writer' = [t \in Threads |-> EmptyDict]
    /\ log_record_factory' = "new"
    /\ pc' = "before_request"
    /\ UNCHANGED << handlers, environ,
                    before_request_funcs, active, record,
                    preinstalled, installed, hookRan, lastReq,
                    levels, requested, runs, atNormalizer >>

\* lines 77-79
RegisterBeforeRequest ==
    /\ pc = "before_request"
    /\ before_request_funcs' = before_request_funcs \cup {"before_req"}
    /\ pc' = "static_context"
    /\ UNCHANGED << handlers, environ, LOGGER_FUNCTION_CONTEXT, LOGGER_REQUEST_CONTEXT,
                    log_record_factory, active, record,
                    preinstalled, installed, writer, hookRan, lastReq,
                    levels, requested, runs, atNormalizer >>

\* lines 91-97
InitStaticContext ==
    /\ pc = "static_context"
    /\ LOGGER_FUNCTION_CONTEXT' =
           Put(Put(Put(LOGGER_FUNCTION_CONTEXT, "project_id", PROJECT_ID(environ)),
                   "function_region", FUNCTION_REGION(environ)),
               "function_name", FUNCTION_NAME(environ))
    /\ pc' = "loaded"
    /\ UNCHANGED << handlers, environ, LOGGER_REQUEST_CONTEXT,
                    log_record_factory, before_request_funcs, active, record,
                    preinstalled, installed, writer, hookRan, lastReq,
                    levels, requested, runs, atNormalizer >>

\* the module is executed again in the same process (importlib.reload, or a second
\* import under another module name): the statements of lines 8-97 run again on the
\* root logger, the factory and the hook list that the first run left
Reimport ==
    /\ pc = "loaded"
    /\ runs < MaxRuns
    /\ record = NoRecord
    /\ active = {}
    /\ runs' = runs + 1
    /\ pc' = "setup_logging"
    /\ UNCHANGED << handlers, environ, LOGGER_FUNCTION_CONTEXT, LOGGER_REQUEST_CONTEXT,
                    log_record_factory, before_request_funcs, active, record,
                    preinstalled, installed, writer, hookRan, lastReq,
                    levels, requested, atNormalizer >>

Load(N, S) ==
    \/ \E n \in N, s \in S : SetupLogging(n, s)
    \/ SetLevel
    \/ RemoveStreamHandlers
    \/ SetLogRecordFactory
    \/ RegisterBeforeRequest
    \/ InitStaticContext

----------------------------------------------------------------------------
(* Serving: the framework runs the hook at the start of each request; any *)
(* flow may log at any time.                                              *)

\* The framework dispatches a request to task k and calls the registered hook.
\* The hook has no suspension point and touches only the slot of the calling
\* flow, so its run is one step: no other flow can observe it half-way.
BeforeReq(k, headers) ==
    /\ pc = "loaded"
    /\ "before_req" \in before_request_funcs
    /\ record = NoRecord
    /\ k \notin active
    /\ LET slot == Slot(k)
           r == before_req(LOGGER_REQUEST_CONTEXT[slot], headers)
       IN  /\ LOGGER_REQUEST_CONTEXT' = [LOGGER_REQUEST_CONTEXT EXCEPT ![slot] = r.ctx]
           /\ writer' = [writer EXCEPT ![slot] =
                            [f \in DOMAIN writer[slot] \cup r.wrote |->
                                IF f \in r.wrote THEN k ELSE writer[slot][f]]]
           /\ lastReq' = [flow |-> k, headers |-> headers, raised |-> r.raised,
                          solo |-> \A j \in active : ThreadOf(j) # ThreadOf(k)]
    /\ active' = active \cup {k}
    /\ hookRan' = hookRan \cup {k}
    /\ UNCHANGED << pc, handlers, environ, LOGGER_FUNCTION_CONTEXT,
                    log_record_factory, before_request_funcs, record,
                    preinstalled, installed, levels, requested, runs, atNormalizer >>

\* the request of task k ends
EndRequest(k) ==
    /\ k \in active
    /\ record = NoRecord
    /\ active' = active \ {k}
    /\ UNCHANGED << pc, handlers, environ, LOGGER_FUNCTION_CONTEXT, LOGGER_REQUEST_CONTEXT,
                    log_record_factory, before_request_funcs, record,
                    preinstalled, installed, writer, hookRan, lastReq,
                    levels, requested, runs, atNormalizer >>

\* the application stores a label mapping in the static context
SetStaticLabels(m) ==
    /\ pc = "loaded"
    /\ record = NoRecord
    /\ "labels" \notin DOMAIN LOGGER_FUNCTION_CONTEXT
    /\ LOGGER_FUNCTION_CONTEXT' = Put(LOGGER_FUNCTION_CONTEXT, "labels", m)
    /\ UNCHANGED << pc, handlers, environ, LOGGER_REQUEST_CONTEXT,
                    log_record_factory, before_request_funcs, active, record,
                    preinstalled, installed, writer, hookRan, lastReq,
                    levels, requested, runs, atNormalizer >>

\* logging.getLogRecordFactory()(*args) on flow k
MakeRecord(k, args) ==
    IF log_record_factory = "new"
    THEN new_log_factory(args, LOGGER_FUNCTION_CONTEXT, LOGGER_REQUEST_CONTEXT[Slot(k)])
    ELSE old_log_factory(args)

\* a logging call on flow k builds its record
Log(k, args) ==
    /\ record = NoRecord
    /\ record' = [flow |-> k, factory |-> log_record_factory, args |-> args,
                   rec |-> MakeRecord(k, args)]
    /\ UNCHANGED << pc, handlers, environ, LOGGER_FUNCTION_CONTEXT, LOGGER_REQUEST_CONTEXT,
                    log_record_factory, before_request_funcs, active,
                    preinstalled, installed, writer, hookRan, lastReq,
                    levels, requested, runs, atNormalizer >>

\* the record is handed to the handlers and the logging call returns
Emit ==
    /\ record # NoRecord
    /\ record' = NoRecord
    /\ UNCHANGED << pc, handlers, environ, LOGGER_FUNCTION_CONTEXT, LOGGER_REQUEST_CONTEXT,
                    log_record_factory, before_request_funcs, active,
                    preinstalled, installed, writer, hookRan, lastReq,
                    levels, requested, runs, atNormalizer >>

\* line 15: __name__, the name of the one logger LogFactory configures and returns
getLogger_name(name) == "loggingutil"

\* lines 11-20 with a fault: the call also stores the name in the static context
LogFactory_naming(name, log_level, debug) ==
    /\ pc = "loaded"
    /\ record = NoRecord
    /\ levels' = Put(levels, getLogger_name(name), IF debug THEN "DEBUG" ELSE log_level)
    /\ requested' = Put(requested, name, IF debug THEN "DEBUG" ELSE log_level)
    /\ LOGGER_FUNCTION_CONTEXT' = Put(LOGGER_FUNCTION_CONTEXT, "function_name", <<name>>)
    /\ UNCHANGED << pc, handlers, environ, LOGGER_REQUEST_CONTEXT,
                    log_record_factory, before_request_funcs, active, record,
                    preinstalled, installed, writer, hookRan, lastReq,
                    runs, atNormalizer >>

\* lines 11-20: the application asks for a logger
LogFactory(name, log_level, debug) ==
    /\ pc = "loaded"
    /\ record = NoRecord
    /\ levels' = Put(levels, getLogger_name(name), IF debug THEN "DEBUG" ELSE log_level)
    /\ requested' = Put(requested, name, IF debug THEN "DEBUG" ELSE log_level)
    /\ UNCHANGED << pc, handlers, environ, LOGGER_FUNCTION_CONTEXT, LOGGER_REQUEST_CONTEXT,
                    log_record_factory, before_request_funcs, active, record,
                    preinstalled, installed, writer, hookRan, lastReq,
                    runs, atNormalizer >>

Serve(K, H, L, A) ==
    \/ \E k \in K, h \in H : BeforeReq(k, h)
    \/ \E k \in K : EndRequest(k)
    \/ \E m \in L : SetStaticLabels(m)
    \/ \E k \in K, args \in A : Log(k, args)
    \/ Emit

----------------------------------------------------------------------------
(* Inputs *)

\* version-traceId-spanId-flags
Join4(v, t, s, f) == v \o <<"-">> \o t \o <<"-">> \o s \o <<"-">> \o f

\* the headers of a request: each of the two headers present or not
HeadersOf(tps, eids) ==
    {EmptyDict}
    \cup {[h \in {"Traceparent"} |-> tp] : tp \in tps}
    \cup {[h \in {"Function-Execution-Id"} |-> e] : e \in eids}
    \cup {[h \in {"Traceparent", "Function-Execution-Id"} |->
              IF h = "Traceparent" THEN p[1] ELSE p[2]] : p \in tps \X eids}

TraceparentA == Join4(<<"0">>, <<"a">>, <<"b">>, <<"1">>)
TraceparentB == Join4(<<"0">>, <<"b">>, <<"a">>, <<"1">>)
Requests == HeadersOf({TraceparentA, TraceparentB}, {<<"x">>, <<"y">>})

\* the example of the W3C trace context: 00-4bf92f3577b34da6a3ce929d0e0e4736-00f067aa0ba902b7-01
ExampleTraceId ==
    << "4", "b", "f", "9", "2", "f", "3", "5", "7", "7", "b", "3", "4", "d",
       "a", "6", "a", "3", "c", "e", "9", "2", "9", "d", "0", "e", "0", "e",
       "4", "7", "3", "6" >>
ExampleSpanId ==
    << "0", "0", "f", "0", "6", "7", "a", "a", "0", "b", "a", "9", "0", "2",
       "b", "7" >>
TraceparentExample == Join4(<<"0", "0">>, ExampleTraceId, ExampleSpanId, <<"0", "1">>)

\* every header of at most MaxHeaderLen characters over a two-letter alphabet, and the example
OneFlowRequests ==
    HeadersOf(SeqsUpTo({"-", "a"}, MaxHeaderLen) \cup {TraceparentExample}, {<<>>, <<"x">>})

\* every root handler list of at most MaxPre console and other handlers
PreLists == SeqsUpTo({Console, OtherStream, Other}, MaxPre)

LabelMappings == {[team |-> <<"t">>]}
LogArgs == {[name |-> "app", msg |-> "m"]}

EnvNone == EmptyDict
EnvAll == [v \in {"GCLOUD_PROJECT", "FUNCTION_NAME", "FUNCTION_REGION"} |-> <<"p">>]

\* the variables of lines 92-94, in the order in which each line consults them
ProjectVars == <<"GCLOUD_PROJECT", "GCP_PROJECT", "X_GOOGLE_GCLOUD_PROJECT", "PROJECT_ID">>
NameVars == <<"FUNCTION_NAME", "X_GOOGLE_FUNCTION_NAME">>
RegionVars == <<"FUNCTION_REGION", "X_GOOGLE_FUNCTION_REGION">>
EnvVars == {"GCLOUD_PROJECT", "GCP_PROJECT", "X_GOOGLE_GCLOUD_PROJECT", "PROJECT_ID",
            "FUNCTION_NAME", "X_GOOGLE_FUNCTION_NAME",
            "FUNCTION_REGION", "X_GOOGLE_FUNCTION_REGION"}

\* a value for each variable, different from the value of every other variable
EnvValue(v) ==
    CASE v = "GCLOUD_PROJECT" -> <<"p", "a">>
      [] v = "GCP_PROJECT" -> <<"p", "b">>
      [] v = "X_GOOGLE_GCLOUD_PROJECT" -> <<"p", "c">>
      [] v = "PROJECT_ID" -> <<"p", "d">>
      [] v = "FUNCTION_NAME" -> <<"n", "a">>
      [] v = "X_GOOGLE_FUNCTION_NAME" -> <<"n", "b">>
      [] v = "FUNCTION_REGION" -> <<"r", "a">>
      [] v = "X_GOOGLE_FUNCTION_REGION" -> <<"r", "b">>

\* every environment: each variable unset, set to the empty string, or set to its value
Envs ==
    {[v \in E \cup V |-> IF v \in E THEN <<>> ELSE EnvValue(v)] :
        E \in SUBSET EnvVars, V \in SUBSET EnvVars}

----------------------------------------------------------------------------
(* The program: import, then serving on threads and tasks *)

Init == InitWith({<<Console, Console>>}, {EnvNone, EnvAll})

Next == Load({1}, {TRUE}) \/ Serve(Tasks, Requests, LabelMappings, LogArgs)

Spec == Init /\ [][Next]_vars

\* one flow, with every short Traceparent header
NextOneFlow == Load({1}, {TRUE}) \/ Serve({"a"}, OneFlowRequests, LabelMappings, LogArgs)

SpecOneFlow == InitWith({<<Console, Console>>}, {EnvNone}) /\ [][NextOneFlow]_vars

\* the application: one flow that asks for loggers by name, serves requests and logs
LoggerNames == {"a", "b"}
LogLevels == {"DEBUG", "INFO", "WARNING"}
AppRequests == HeadersOf({TraceparentA}, {<<"x">>})
AppLogArgs == {[name |-> "a", msg |-> "m"], [name |-> "b", msg |-> "n", levelname |-> "INFO"]}

NextApp ==
    \/ Load({1}, {TRUE})
    \/ Serve({"a"}, AppRequests, LabelMappings, AppLogArgs)
    \/ \E name \in LoggerNames, log_level \in LogLevels, debug \in BOOLEAN :
           LogFactory(name, log_level, debug)

SpecApp == InitWith({<<Console, Console>>}, {EnvNone, EnvAll}) /\ [][NextApp]_vars

\* the import alone, from every root handler list the platform may have left
NextStartup == Load(1..MaxBackend, BOOLEAN)

SpecStartup == InitWith(PreLists, {EnvNone, EnvAll}) /\ [][NextStartup]_vars

\* the import, run again up to MaxRuns times
NextRerun == Load(1..MaxBackend, BOOLEAN) \/ Reimport

SpecRerun == InitWith(PreLists, {EnvNone}) /\ [][NextRerun]_vars

\* the import under every environment
NextEnv == Load({1}, {TRUE})

SpecEnv == InitWith({<<Console, Console>>}, Envs) /\ [][NextEnv]_vars

----------------------------------------------------------------------------
(* Vocabulary of the properties *)

\* the attribute set that threading.local shows to flow k
CtxOf(k) == LOGGER_REQUEST_CONTEXT[Slot(k)]

\* a request attribute is absent when it is unset, None or empty
Absent(ctx, f) == ~Truthy(Get(ctx, f, None))

\* the request attributes whose value (or whose presence) a built record carries
Carried(rec) ==
    {f \in {"trace", "span_id"} : f \in DOMAIN rec}
    \cup (IF "labels" \in DOMAIN rec THEN {"execution_id"} ELSE {})

\* the dash-separated segments of a header, by the positions of its dashes
Dashes(h) == {i \in 1..Len(h) : h[i] = "-"}
NthDash(h, n) == CHOOSE i \in Dashes(h) : Cardinality({j \in Dashes(h) : j < i}) = n - 1
Segment(h, n) ==
    LET from == IF n = 1 THEN 1 ELSE NthDash(h, n - 1) + 1
        to == IF n = Cardinality(Dashes(h)) + 1 THEN Len(h) ELSE NthDash(h, n) - 1
    IN  SubSeq(h, from, to)

HasTraceparent(h) == "Traceparent" \in DOMAIN h
\* version-traceId-spanId-flags: four segments
WellFormed(h) == HasTraceparent(h) /\ Cardinality(Dashes(h["Traceparent"])) = 3
\* missing, empty, or fewer than 3 segments
Malformed(h) ==
    \/ ~HasTraceparent(h)
    \/ h["Traceparent"] = <<>>
    \/ Cardinality(Dashes(h["Traceparent"])) < 2

Built == record # NoRecord /\ record.factory = "new"
Hooked == lastReq # NoReq

Consoles(hs) == Cardinality({i \in 1..Len(hs) : hs[i].kind = "console"})
Backends(hs) == Cardinality({i \in 1..Len(hs) : hs[i].kind = "backend"})
Normalized == pc \notin {"setup_logging", "set_level", "root_handlers"}

----------------------------------------------------------------------------
(* C1: isolation between OS threads.  Whatever the interleaving of hook   *)
(* runs and record constructions, every request attribute a record built *)
(* on a flow carries was stored by a hook running on that flow's own OS   *)
(* thread, never by a flow of another thread.                             *)
C1_ThreadIsolation ==
    record # NoRecord =>
        \A f \in Carried(record.rec) :
            /\ f \in DOMAIN writer[ThreadOf(record.flow)]
            /\ ThreadOf(writer[ThreadOf(record.flow)][f]) = ThreadOf(record.flow)
            /\ f # "execution_id" => record.rec[f] = LOGGER_REQUEST_CONTEXT[ThreadOf(record.flow)][f]

\* a record built on thread T2 carries its own trace while a request with another
\* trace id is being handled on thread T1
C1_Witness ==
    /\ Built
    /\ record.flow = "c"
    /\ {"a", "c"} \subseteq active
    /\ "trace" \in DOMAIN record.rec
    /\ "trace" \in DOMAIN LOGGER_REQUEST_CONTEXT["T1"]
    /\ LOGGER_REQUEST_CONTEXT["T1"]["trace"] # record.rec["trace"]

(* C2: isolation between cooperative tasks.  A record built on a task    *)
(* that is handling a request never carries a request attribute stored   *)
(* by the hook of another task that is handling a request at that time.  *)
C2_TaskIsolation ==
    (record # NoRecord /\ record.flow \in active) =>
        \A f \in Carried(record.rec) :
            LET j == writer[Slot(record.flow)][f]
            IN  j = record.flow \/ j \notin active

(* C3: the hook overwrites the flow's fields on every request.  After    *)
(* before_req has returned for a request that was dispatched while no     *)
(* other request was active on the thread, the stored trace id and span   *)
(* id are those of the request's Traceparent header, and absent when the  *)
(* request has none; a record built during that request carries no other *)
(* trace id or span id.                                                   *)
C3_SetOverwrites ==
    (Hooked /\ ~lastReq.raised /\ lastReq.solo) =>
        LET ctx == CtxOf(lastReq.flow)
            h == lastReq.headers
        IN  /\ ~HasTraceparent(h) => Absent(ctx, "trace") /\ Absent(ctx, "span_id")
            /\ WellFormed(h) =>
                  /\ Get(ctx, "trace", None) = Segment(h["Traceparent"], 2)
                  /\ Get(ctx, "span_id", None) = Segment(h["Traceparent"], 3)
            /\ (Built /\ record.flow = lastReq.flow /\ ~HasTraceparent(h)) =>
                  /\ "trace" \notin DOMAIN record.rec
                  /\ "span_id" \notin DOMAIN record.rec

(* C4: malformed trace headers never raise.  For a request whose          *)
(* Traceparent header is missing, empty or has fewer than 3 segments,    *)
(* before_req returns without raising and the flow's trace id and span   *)
(* id are both absent afterwards.                                         *)
C4_MalformedNeverRaises ==
    (Hooked /\ Malformed(lastReq.headers)) =>
        /\ ~lastReq.raised
        /\ Absent(CtxOf(lastReq.flow), "trace")
        /\ Absent(CtxOf(lastReq.flow), "span_id")

(* C5: valid trace header parsing.  For a request whose Traceparent is   *)
(* version-traceId-spanId-flags, before_req returns, and the stored      *)
(* trace id is the second dash-separated segment and the stored span id  *)
(* the third, whatever the first and the fourth are.                     *)
C5_ValidHeaderParsed ==
    (Hooked /\ WellFormed(lastReq.headers)) =>
        /\ ~lastReq.raised
        /\ Get(CtxOf(lastReq.flow), "trace", None) = Segment(lastReq.headers["Traceparent"], 2)
        /\ Get(CtxOf(lastReq.flow), "span_id", None) = Segment(lastReq.headers["Traceparent"], 3)

\* the example header has been handled: its trace id and span id are stored
C5_Witness ==
    /\ Hooked
    /\ HasTraceparent(lastReq.headers)
    /\ lastReq.headers["Traceparent"] = TraceparentExample
    /\ Get(CtxOf(lastReq.flow), "trace", None) = ExampleTraceId
    /\ Get(CtxOf(lastReq.flow), "span_id", None) = ExampleSpanId

(* C6: the resource descriptor is always present.  Every record built by *)
(* the installed factory carries a resource of type cloud_function with  *)
(* the label keys project_id, region and function_name, before and after *)
(* the static context is populated, with or without a request context.   *)
C6_ResourceAlwaysPresent ==
    Built =>
        /\ "resource" \in DOMAIN record.rec
        /\ record.rec["resource"].type = "cloud_function"
        /\ DOMAIN record.rec["resource"].labels = {"project_id", "region", "function_name"}

\* a record built after the factory was installed and before the static context is populated
C6_Witness ==
    /\ Built
    /\ pc = "static_context"
    /\ "resource" \in DOMAIN record.rec
    /\ \A l \in DOMAIN record.rec["resource"].labels : record.rec["resource"].labels[l] = None

(* C7: label precedence.  With a non-empty execution id in the request   *)
(* context, the record's labels are the static context's labels mapping  *)
(* when one is configured and the single-key mapping with the execution  *)
(* id otherwise; without one the record has no labels.                   *)
C7_LabelPrecedence ==
    Built =>
        LET e == Get(CtxOf(record.flow), "execution_id", None)
        IN  IF Truthy(e)
            THEN /\ "labels" \in DOMAIN record.rec
                 /\ record.rec["labels"] =
                        IF "labels" \in DOMAIN LOGGER_FUNCTION_CONTEXT
                        THEN LOGGER_FUNCTION_CONTEXT["labels"]
                        ELSE [execution_id |-> e]
            ELSE "labels" \notin DOMAIN record.rec

\* a record built with both an execution id and configured labels carries the latter
C7_Witness ==
    /\ Built
    /\ Truthy(Get(CtxOf(record.flow), "execution_id", None))
    /\ "labels" \in DOMAIN LOGGER_FUNCTION_CONTEXT
    /\ "labels" \in DOMAIN record.rec
    /\ record.rec["labels"] = [team |-> <<"t">>]

C9_AtMostOneConsole == Normalized => Consoles(handlers) <= 1

(* C9, amended: when the platform pre-installed at most one generic      *)
(* console handler, or at most three with two of them in the first two   *)
(* positions, after the import the root handler list holds at most one   *)
(* generic console handler and at least one backend handler.             *)
C9_AtMostOneConsoleOfThree ==
    (/\ Normalized
     /\ \/ Consoles(preinstalled) <= 1
        \/ /\ Consoles(preinstalled) <= 3
           /\ Len(preinstalled) >= 2
           /\ preinstalled[1] = Console
           /\ preinstalled[2] = Console)
    => /\ Consoles(handlers) <= 1
       /\ Backends(handlers) >= 1

\* three pre-installed console handlers: one is left, ahead of the backend handlers
C9_Witness ==
    /\ Normalized
    /\ preinstalled = <<Console, Console, Console>>
    /\ handlers = <<Console>> \o installed

(* C10: duplicate removal keeps the backend.  When the root logger holds *)
(* two generic console handlers followed by the backend handler(s), the  *)
(* import removes those two and leaves the backend handler(s) in place   *)
(* and in order.                                                         *)
C10_DuplicatesRemoved ==
    (Normalized /\ preinstalled = <<Console, Console>>) => handlers = installed

\* two console handlers followed by one backend handler: exactly the backend handler is left
C10_Witness ==
    /\ Normalized
    /\ preinstalled = <<Console, Console>>
    /\ Len(installed) = 1
    /\ handlers = installed
    /\ handlers[1].kind = "backend"

----------------------------------------------------------------------------
\* exactly two generic console handlers ahead of the backend handler(s)
DuplicatePattern(hs) ==
    /\ Len(hs) > 2
    /\ hs[1] = Console
    /\ hs[2] = Console
    /\ \A i \in 3..Len(hs) : hs[i].kind = "backend"

(* C11: defensive no-op on mismatch.  Unless the root handler list is    *)
(* exactly two generic console handlers ahead of the backend handler(s), *)
(* lines 36-40 remove no handler and leave the list unchanged.           *)
C11_NoOpOnMismatch ==
    (Normalized /\ ~DuplicatePattern(atNormalizer)) => handlers = atNormalizer

----------------------------------------------------------------------------
\* the threshold of the logger that LogFactory returns for a name
LevelFor(name) == Get(levels, getLogger_name(name), "NOTSET")

(* C12: LogFactory level.  After any sequence of LogFactory calls, the  *)
(* logger obtained for a name has the threshold of the most recent call *)
(* made with that name (DEBUG when debug was true, log_level otherwise) *)
(* and a call made with a different name has not changed it.            *)
C12_LevelPerName ==
    \A name \in DOMAIN requested : LevelFor(name) = requested[name]

----------------------------------------------------------------------------
(* C14: the execution id follows the current request.  Whatever the     *)
(* Traceparent header of a request is (absent, well-formed, malformed), *)
(* after the hook was invoked for it the flow's execution id is the     *)
(* request's Function-Execution-Id header, or None when it has none, so *)
(* no record is labelled with the execution id of an earlier request.   *)
C14_ExecutionIdFollowsRequest ==
    Hooked =>
        Get(CtxOf(lastReq.flow), "execution_id", None)
            = Get(lastReq.headers, "Function-Execution-Id", None)

----------------------------------------------------------------------------
\* the attributes that lines 60, 65, 68 and 72 write
AttachedFields == {"resource", "trace", "span_id", "labels"}

\* a step in which a logging call builds its record with the installed factory
Constructs == record = NoRecord /\ record' # NoRecord /\ record'.factory = "new"

(* C15: pure enrichment over the previous constructor.  The record the  *)
(* installed factory returns is the record of the previously installed  *)
(* constructor for the same arguments: every base field is there with   *)
(* its value, the only other attributes are resource, trace, span_id    *)
(* and labels, and building it changes neither the static context nor   *)
(* the request context.                                                 *)
C15_PureEnrichment ==
    /\ [](Built =>
            LET base == old_log_factory(record.args)
            IN  /\ \A a \in DOMAIN base : a \in DOMAIN record.rec /\ record.rec[a] = base[a]
                /\ (DOMAIN record.rec) \ (DOMAIN base) \subseteq AttachedFields)
    /\ [][Constructs =>
            /\ LOGGER_FUNCTION_CONTEXT' = LOGGER_FUNCTION_CONTEXT
            /\ LOGGER_REQUEST_CONTEXT' = LOGGER_REQUEST_CONTEXT]_vars

\* a record with three base fields was enriched with all four attributes
C15_Witness ==
    /\ Built
    /\ "levelname" \in DOMAIN record.args
    /\ AttachedFields \subseteq DOMAIN record.rec
    /\ record.rec["msg"] = "n"

----------------------------------------------------------------------------
\* the fields of the static context that the import writes
StaticFields == {"project_id", "function_region", "function_name"}
StaticOf(fctx) == [f \in StaticFields |-> Get(fctx, f, "unset")]

(* C16: the static context is write-once.  Once the import has finished, *)
(* no step (hook run, record construction, LogFactory call) changes      *)
(* project_id, function_region or function_name, and every record built  *)
(* from then on carries these values as its resource labels.             *)
C16_StaticWriteOnce ==
    [][pc = "loaded" =>
          /\ StaticOf(LOGGER_FUNCTION_CONTEXT') = StaticOf(LOGGER_FUNCTION_CONTEXT)
          /\ Constructs =>
                record'.rec["resource"].labels =
                    [project_id |-> LOGGER_FUNCTION_CONTEXT["project_id"],
                     region |-> LOGGER_FUNCTION_CONTEXT["function_region"],
                     function_name |-> LOGGER_FUNCTION_CONTEXT["function_name"]]]_vars

\* after a hook run, a LogFactory call and a change of the labels, a record
\* carries the project of the environment
C16_Witness ==
    /\ pc = "loaded"
    /\ Built
    /\ hookRan # {}
    /\ requested # EmptyDict
    /\ "labels" \in DOMAIN LOGGER_FUNCTION_CONTEXT
    /\ record.rec["resource"].labels.project_id = <<"p">>
    /\ record.rec["resource"].labels.function_name = FUNCTION_NAME(environ)

----------------------------------------------------------------------------
\* the handlers of a list that are not generic console handlers
Legitimate(hs) == Cardinality({i \in 1..Len(hs) : hs[i].kind # "console"})

\* the list a later run of lines 36-40 met has more than two handlers, starts
\* with two StreamHandler instances, and one of the two is not a console handler
RerunMeetsLegitimate ==
    /\ runs > 1
    /\ Normalized
    /\ Len(atNormalizer) > 2
    /\ isinstance_StreamHandler(atNormalizer[1])
    /\ isinstance_StreamHandler(atNormalizer[2])
    /\ \E i \in 1..2 : atNormalizer[i].kind # "console"

(* C17: re-running startup is unsafe.  When the statements of the module *)
(* run again, the backend client adds its handler again and lines 36-40  *)
(* delete the first two handlers of the list they meet whenever both are *)
(* StreamHandler instances, so a handler that is not one of the          *)
(* platform's console handlers (a backend handler the first run left) is *)
(* removed.                                                              *)
C17_RerunRemovesLegitimate ==
    RerunMeetsLegitimate =>
        /\ Len(handlers) = Len(atNormalizer) - 2
        /\ Legitimate(handlers) < Legitimate(atNormalizer)

\* the platform left two console handlers; the first run left the backend
\* handlers only, and the second run removed backend handlers
C17_Witness ==
    /\ runs = 2
    /\ Normalized
    /\ preinstalled = <<Console, Console>>
    /\ Consoles(atNormalizer) = 0
    /\ Backends(handlers) < Backends(atNormalizer)

----------------------------------------------------------------------------
\* the least position of vs whose variable satisfies P
FirstWith(vs, P(_)) == CHOOSE i \in 1..Len(vs) : P(vs[i]) /\ \A j \in 1..(i - 1) : ~P(vs[j])

\* the value of the first variable of vs that is set, None when none is set
FirstSet(env, vs) ==
    LET IsSet(v) == v \in DOMAIN env
    IN  IF \E i \in 1..Len(vs) : IsSet(vs[i]) THEN env[vs[FirstWith(vs, IsSet)]] ELSE None

\* the value of the first variable of vs that is set to a non-empty string; when
\* there is none, what the last variable of vs holds: the empty string, or None
FirstNonEmpty(env, vs) ==
    LET NonEmpty(v) == v \in DOMAIN env /\ env[v] # <<>>
    IN  IF \E i \in 1..Len(vs) : NonEmpty(vs[i]) THEN env[vs[FirstWith(vs, NonEmpty)]]
        ELSE IF vs[Len(vs)] \in DOMAIN env THEN <<>> ELSE None

(* C18 as stated: environment aliases, first present wins.  After the   *)
(* import, project_id, function_name and function_region are each the   *)
(* value of the first of their variables that is set, and None only     *)
(* when none of them is set.                                            *)
C18_FirstSetWins ==
    pc = "loaded" =>
        /\ LOGGER_FUNCTION_CONTEXT["project_id"] = FirstSet(environ, ProjectVars)
        /\ LOGGER_FUNCTION_CONTEXT["function_name"] = FirstSet(environ, NameVars)
        /\ LOGGER_FUNCTION_CONTEXT["function_region"] = FirstSet(environ, RegionVars)

(* C18 amended: first non-empty wins.  After the import, each of the    *)
(* three fields is the value of the first of its variables that is set  *)
(* to a non-empty string; when none is, the field is the empty string   *)
(* if the last of its variables is set and None otherwise.  No          *)
(* environment makes the import stop.                                   *)
C18_FirstNonEmptyWins ==
    pc = "loaded" =>
        /\ LOGGER_FUNCTION_CONTEXT["project_id"] = FirstNonEmpty(environ, ProjectVars)
        /\ LOGGER_FUNCTION_CONTEXT["function_name"] = FirstNonEmpty(environ, NameVars)
        /\ LOGGER_FUNCTION_CONTEXT["function_region"] = FirstNonEmpty(environ, RegionVars)

\* GCLOUD_PROJECT is set but empty and GCP_PROJECT gives the project; the only
\* region variable that is set is empty and the region is None
C18_Witness ==
    /\ pc = "loaded"
    /\ Get(environ, "GCLOUD_PROJECT", None) = <<>>
    /\ Get(environ, "GCP_PROJECT", None) = EnvValue("GCP_PROJECT")
    /\ LOGGER_FUNCTION_CONTEXT["project_id"] = EnvValue("GCP_PROJECT")
    /\ Get(environ, "FUNCTION_REGION", None) = <<>>
    /\ "X_GOOGLE_FUNCTION_REGION" \notin DOMAIN environ
    /\ LOGGER_FUNCTION_CONTEXT["function_region"] = None

====
